---- MODULE Spec2Model ----
(***************************************************************************)
(* Water leak detection: the per-meter leak detection engine in its two    *)
(* implementations, process_reading (leak_detector.py, state in a module   *)
(* level dict) and process_reading_scalable (leak_detector_scalable.py,    *)
(* state in the meter_state table of db.py, alerts in leak_alerts), and    *)
(* the monitor thread of app.py that feeds the second engine from the      *)
(* meter_readings table, which producers fill through insert_reading.      *)
(*                                                                         *)
(* Units.  A timestamp is a whole number of hours since midnight of day 0  *)
(* (a datetime truncated to the hour), so timestamp.hour is t % 24 and     *)
(* (t2 - t1).total_seconds() / 3600 is t2 - t1.  A volume is a whole       *)
(* number of decilitres, so the thresholds 0.1 L and 2.0 L are 1 and 20.   *)
(***************************************************************************)
EXTENDS Integers, Sequences, FiniteSets, TLC

VARIABLES
    program,        \* which executable runs: "leak_detector" or "app"
    meter_state,    \* leak_detector.meter_state: dict meter_id -> state
    db_meter_state, \* db.py table meter_state: a set of rows
    leak_alerts,    \* db.py table leak_alerts: rows in insertion order
    call,           \* the last engine call: its arguments and return value
    before,         \* the meter's state when that call began (NoRow: none)
    alerts_before,  \* the number of rows of leak_alerts when it began
    fed,            \* the meters that had a reading applied
    processed,      \* number of engine calls made in this run
    alone,          \* meter_id -> the state of an engine of its own that
                    \* is fed this meter's readings and no others
    streak,         \* meter_id -> readings in a row, since the meter's first,
                    \* each one hour after the last with delta > MIN_FLOW
    night_run,      \* meter_id -> the current run of night readings that
                    \* began with night_flow = 0: the sum of its deltas
    meter_readings, \* db.py table meter_readings: a set of rows
    sqlite_sequence,\* the largest id AUTOINCREMENT gave to a reading
    last_processed_id, \* app.last_processed_id, held in memory
    pc,             \* where monitor_new_readings stands: "fetch", "apply",
                    \* "sleep" or "backoff"
    readings,       \* its local list readings, what is left to apply
    run,            \* how many times the process was started again
    applied,        \* the readings the engine returned for, in order,
                    \* each with the run it was applied in
    assigned,       \* every id a stored reading was ever given
    raised,         \* the reading on which a pass raised and that was
                    \* not applied since (NoRaise: none)
    event,          \* the last step of a producer or of the monitor,
                    \* with the stores as they were when it began
    failures,       \* store operations that raised so far
    sweeps,         \* retention sweeps made so far
    batch           \* a call of process_batch_readings: where it stands,
                    \* its argument, what is left of it, its list alerts

engineVars == <<program, meter_state, db_meter_state, leak_alerts, call,
                before, alerts_before, fed, processed, alone, streak,
                night_run>>

monitorVars == <<meter_readings, sqlite_sequence, last_processed_id, pc,
                 readings, run, applied, assigned, raised, event, failures,
                 sweeps>>

vars == <<program, meter_state, db_meter_state, leak_alerts, call, before,
          alerts_before, fed, processed, alone, streak, night_run,
          meter_readings, sqlite_sequence, last_processed_id, pc, readings,
          run, applied, assigned, raised, event, failures, sweeps, batch>>

-----------------------------------------------------------------------------
(* Thresholds: leak_detector.py:7-11 and leak_detector_scalable.py:13-17.  *)
MIN_FLOW == 1
CONTINUOUS_HOURS == 24
NIGHT_START == 2
NIGHT_END == 5
NIGHT_THRESHOLD == 20

(* Bounds of the model. *)
MaxHour == 37
MaxVolume == 50
MaxAlerts == 2
MaxReadings == 3
MaxId == 2
MaxFailures == 2
MaxRestarts == 1
MaxSweeps == 1
MaxBatch == 2

None == "None"
NoStreak == [live |-> FALSE, n |-> 0]
NoRun == [open |-> FALSE, sum |-> 0]
Hours == 0..MaxHour
Volumes == 0..MaxVolume

-----------------------------------------------------------------------------
(* datetime *)
HourOf(t) == t % 24

isoformat(t) == [day |-> t \div 24, hour |-> t % 24]

fromisoformat(s) == s.day * 24 + s.hour

is_night_ExclusiveEnd(hour) == NIGHT_START <= hour /\ hour < NIGHT_END

is_night(hour) == NIGHT_START <= hour /\ hour <= NIGHT_END

-----------------------------------------------------------------------------
(* db.py; NoRow is the None that fetchone() gives when no row matches. *)
NoRow == [meter_id |-> None]

get_meter_state(table, meter_id) ==
    LET rows == {r \in table : r.meter_id = meter_id}
    IN  IF rows # {} THEN CHOOSE r \in rows : TRUE ELSE NoRow

(* Two slips of the upsert: a REPLACE that is not keyed by meter_id, and an *)
(* INSERT that replaces nothing.                                           *)
update_meter_state_ReplaceAll(table, meter_id, last_volume, last_time, continuous_hours, night_flow) ==
    {[meter_id |-> meter_id, last_volume |-> last_volume,
      last_time |-> last_time, continuous_hours |-> continuous_hours,
      night_flow |-> night_flow]}

update_meter_state_InsertOnly(table, meter_id, last_volume, last_time, continuous_hours, night_flow) ==
    table \cup {[meter_id |-> meter_id, last_volume |-> last_volume,
                 last_time |-> last_time,
                 continuous_hours |-> continuous_hours,
                 night_flow |-> night_flow]}

update_meter_state(table, meter_id, last_volume, last_time, continuous_hours, night_flow) ==
    {r \in table : r.meter_id # meter_id}
        \cup {[meter_id |-> meter_id, last_volume |-> last_volume,
               last_time |-> last_time,
               continuous_hours |-> continuous_hours,
               night_flow |-> night_flow]}

(* An alert store that keeps one alert per meter and type. *)
insert_alert_Once(table, meter_id, alert_type, volume, timestamp) ==
    IF \E i \in 1..Len(table) :
          table[i].meter_id = meter_id /\ table[i].alert_type = alert_type
    THEN table
    ELSE Append(table, [meter_id |-> meter_id, alert_type |-> alert_type,
                        volume_liters |-> volume, timestamp |-> timestamp])

insert_alert(table, meter_id, alert_type, volume, timestamp) ==
    Append(table, [meter_id |-> meter_id, alert_type |-> alert_type,
                   volume_liters |-> volume, timestamp |-> timestamp])

-----------------------------------------------------------------------------
(* The accumulators and the leak decision, the same lines in both engines *)
(* but for the night flow outside the night window.                        *)
ContinuousHoursNext_Inclusive(continuous_hours, delta, hours) ==
    IF delta >= MIN_FLOW THEN continuous_hours + hours ELSE 0

ContinuousHoursNext(continuous_hours, delta, hours) ==
    IF delta > MIN_FLOW THEN continuous_hours + hours ELSE 0

NightFlowNext(night_flow, delta, timestamp) ==
    IF is_night(HourOf(timestamp)) THEN night_flow + delta ELSE night_flow

NightFlowNextScalable(night_flow, delta, timestamp) ==
    IF is_night(HourOf(timestamp)) THEN night_flow + delta ELSE 0

LeakDecision_Strict(continuous_hours, night_flow) ==
    IF continuous_hours > CONTINUOUS_HOURS THEN "CONTINUOUS_FLOW_LEAK"
    ELSE IF night_flow >= NIGHT_THRESHOLD THEN "NIGHT_FLOW_LEAK"
    ELSE None

LeakDecision_NightFirst(continuous_hours, night_flow) ==
    IF night_flow >= NIGHT_THRESHOLD THEN "NIGHT_FLOW_LEAK"
    ELSE IF continuous_hours >= CONTINUOUS_HOURS THEN "CONTINUOUS_FLOW_LEAK"
    ELSE None

LeakDecision(continuous_hours, night_flow) ==
    IF continuous_hours >= CONTINUOUS_HOURS THEN "CONTINUOUS_FLOW_LEAK"
    ELSE IF night_flow >= NIGHT_THRESHOLD THEN "NIGHT_FLOW_LEAK"
    ELSE None

(* leak_detector.py process_reading *)
FirstState_NightFromVolume(volume, timestamp) ==
    [last_volume |-> volume, last_time |-> timestamp,
     continuous_hours |-> 0, night_flow |-> volume]

FirstState(volume, timestamp) ==
    [last_volume |-> volume, last_time |-> timestamp,
     continuous_hours |-> 0, night_flow |-> 0]

ProcessReading(meter_id, timestamp, volume) ==
    /\ program = "leak_detector"
    /\ IF meter_id \notin DOMAIN meter_state
       THEN /\ meter_state' =
                   [m \in DOMAIN meter_state \cup {meter_id} |->
                       IF m = meter_id THEN FirstState(volume, timestamp)
                       ELSE meter_state[m]]
            /\ call' = [fn |-> "process_reading", meter_id |-> meter_id,
                        timestamp |-> timestamp, volume |-> volume,
                        leak |-> None]
       ELSE LET state == meter_state[meter_id]
                delta == volume - state.last_volume
                hours == timestamp - state.last_time
                ch    == ContinuousHoursNext(state.continuous_hours, delta, hours)
                nf    == NightFlowNext(state.night_flow, delta, timestamp)
            IN  /\ meter_state' =
                       [meter_state EXCEPT ![meter_id] =
                           [last_volume |-> volume, last_time |-> timestamp,
                            continuous_hours |-> ch, night_flow |-> nf]]
                /\ call' = [fn |-> "process_reading", meter_id |-> meter_id,
                            timestamp |-> timestamp, volume |-> volume,
                            leak |-> LeakDecision(ch, nf)]
    /\ UNCHANGED <<program, db_meter_state, leak_alerts>>

(* leak_detector_scalable.py process_reading_scalable; ts is the ISO       *)
(* string of the reading, as the reading store and the CSV file hold it.   *)
ProcessReadingScalable(meter_id, ts, volume) ==
    /\ program = "app"
    /\ LET timestamp == fromisoformat(ts)
           state == get_meter_state(db_meter_state, meter_id)
       IN  IF state = NoRow
           THEN /\ db_meter_state' =
                       update_meter_state(db_meter_state, meter_id, volume,
                                          isoformat(timestamp), 0, 0)
                /\ leak_alerts' = leak_alerts
                /\ call' = [fn |-> "process_reading_scalable",
                            meter_id |-> meter_id, timestamp |-> timestamp,
                            volume |-> volume, leak |-> None]
           ELSE LET last_time == fromisoformat(state.last_time)
                    delta == volume - state.last_volume
                    hours == timestamp - last_time
                    ch == ContinuousHoursNext(state.continuous_hours, delta, hours)
                    nf == NightFlowNextScalable(state.night_flow, delta, timestamp)
                    leak_type == LeakDecision(ch, nf)
                IN  /\ db_meter_state' =
                           update_meter_state(db_meter_state, meter_id, volume,
                                              isoformat(timestamp), ch, nf)
                    /\ leak_alerts' =
                           IF leak_type # None
                           THEN insert_alert(leak_alerts, meter_id, leak_type,
                                             volume, isoformat(timestamp))
                           ELSE leak_alerts
                    /\ call' = [fn |-> "process_reading_scalable",
                                meter_id |-> meter_id, timestamp |-> timestamp,
                                volume |-> volume, leak |-> leak_type]
    /\ UNCHANGED <<program, meter_state>>

-----------------------------------------------------------------------------
(* The state the running program holds for a meter, the same shape for    *)
(* both programs: NoRow, or last_volume, last_time (parsed), and the two  *)
(* accumulators.                                                          *)
MeterState(meter_id) ==
    IF program = "app"
    THEN LET row == get_meter_state(db_meter_state, meter_id)
         IN  IF row = NoRow THEN NoRow
             ELSE [last_volume |-> row.last_volume,
                   last_time |-> fromisoformat(row.last_time),
                   continuous_hours |-> row.continuous_hours,
                   night_flow |-> row.night_flow]
    ELSE IF meter_id \in DOMAIN meter_state THEN meter_state[meter_id]
         ELSE NoRow

Known(meter_id) == MeterState(meter_id) # NoRow

(* The engine as the function (MeterState | none, Reading) -> MeterState   *)
(* of one meter, applied to a state kept apart from the program's store.   *)
Alone(state, timestamp, volume) ==
    IF state = NoRow THEN FirstState(volume, timestamp)
    ELSE LET delta == volume - state.last_volume
             hours == timestamp - state.last_time
         IN  [last_volume |-> volume, last_time |-> timestamp,
              continuous_hours |->
                  ContinuousHoursNext(state.continuous_hours, delta, hours),
              night_flow |->
                  IF program = "app"
                  THEN NightFlowNextScalable(state.night_flow, delta, timestamp)
                  ELSE NightFlowNext(state.night_flow, delta, timestamp)]

(* What an observer of the reading stream records beside the program.     *)
Observe(meter_id, timestamp, volume) ==
    LET state == MeterState(meter_id)
        delta == volume - state.last_volume
    IN  /\ before' = state
        /\ alerts_before' = Len(leak_alerts)
        /\ fed' = fed \cup {meter_id}
        /\ processed' = processed + 1
        /\ alone' = [alone EXCEPT ![meter_id] =
                        Alone(alone[meter_id], timestamp, volume)]
        /\ streak' = [streak EXCEPT ![meter_id] =
               IF meter_id \notin fed THEN [live |-> TRUE, n |-> 0]
               ELSE IF /\ streak[meter_id].live
                       /\ timestamp = state.last_time + 1
                       /\ delta > MIN_FLOW
                    THEN [live |-> TRUE, n |-> streak[meter_id].n + 1]
                    ELSE NoStreak]
        /\ night_run' = [night_run EXCEPT ![meter_id] =
               IF meter_id \notin fed THEN [open |-> TRUE, sum |-> 0]
               ELSE IF is_night(HourOf(timestamp))
                    THEN IF night_run[meter_id].open
                         THEN [open |-> TRUE,
                               sum |-> night_run[meter_id].sum + delta]
                         ELSE NoRun
                    ELSE IF MeterState(meter_id)'.night_flow = 0
                         THEN [open |-> TRUE, sum |-> 0]
                         ELSE NoRun]

(* One reading given to the running program's engine. *)
Engine(meter_id, timestamp, volume) ==
    /\ timestamp \in Hours
    /\ volume \in Volumes
    /\ Len(leak_alerts) < MaxAlerts
    /\ \/ ProcessReading(meter_id, timestamp, volume)
       \/ ProcessReadingScalable(meter_id, isoformat(timestamp), volume)
    /\ Observe(meter_id, timestamp, volume)

-----------------------------------------------------------------------------
(* db.py: the meter_readings table.  A row is id, meter_id, timestamp (the *)
(* ISO text the producer gave) and volume_liters.                          *)
NoReading == [id |-> 0, meter_id |-> None, timestamp |-> isoformat(0),
              volume_liters |-> 0]

(* datetime.fromisoformat raises ValueError unless the text is a date and  *)
(* a time with its hour in 0..23.                                          *)
Parses(s) == s.hour \in 0..23

(* The order of two ISO texts as strings, which is how SQLite compares     *)
(* the TEXT column timestamp.                                              *)
TextLess(a, b) == a.day < b.day \/ (a.day = b.day /\ a.hour < b.hour)

MaxRowId(table) ==
    IF table = {} THEN 0
    ELSE CHOOSE n \in {r.id : r \in table} : \A r \in table : r.id <= n

(* UNIQUE(meter_id, timestamp) *)
Duplicate_AnyMeter(table, meter_id, timestamp) ==
    \E r \in table : r.timestamp = timestamp

Duplicate(table, meter_id, timestamp) ==
    \E r \in table : r.meter_id = meter_id /\ r.timestamp = timestamp

(* id INTEGER PRIMARY KEY AUTOINCREMENT: one more than the largest id the  *)
(* table ever held; without AUTOINCREMENT, than the largest it holds now.  *)
NextId_Rowid(table, seq) == MaxRowId(table) + 1

NextId(table, seq) ==
    (IF seq >= MaxRowId(table) THEN seq ELSE MaxRowId(table)) + 1

RECURSIVE OrderById(_)
OrderById(rows) ==
    IF rows = {} THEN << >>
    ELSE LET first == CHOOSE r \in rows : \A q \in rows : r.id <= q.id
         IN  <<first>> \o OrderById(rows \ {first})

get_unprocessed_readings_Inclusive(table, last_id) ==
    OrderById({r \in table : r.id >= last_id})

get_unprocessed_readings(table, last_id) ==
    OrderById({r \in table : r.id > last_id})

(* DELETE FROM meter_readings WHERE timestamp < ?: the rows that stay. *)
cleanup_old_readings_Inclusive(table, cutoff_time) ==
    {r \in table : ~(TextLess(r.timestamp, cutoff_time)
                        \/ r.timestamp = cutoff_time)}

cleanup_old_readings(table, cutoff_time) ==
    {r \in table : ~TextLess(r.timestamp, cutoff_time)}

(* What is recorded of a step: its name, whether it returned, where it     *)
(* raised, the reading it was about, a sweep's cutoff and count, and the   *)
(* stores and the watermark as they were before the step.                  *)
Snapshot(op, ok, at, row, cutoff, count) ==
    [op |-> op, ok |-> ok, at |-> at, row |-> row, cutoff |-> cutoff,
     count |-> count, store |-> meter_readings, ids |-> assigned,
     states |-> db_meter_state, alerts |-> leak_alerts,
     wm |-> last_processed_id]

Step(op) ==
    [op |-> op, ok |-> TRUE, at |-> None, row |-> NoReading,
     cutoff |-> isoformat(0), count |-> 0, store |-> {}, ids |-> {},
     states |-> {}, alerts |-> << >>, wm |-> 0]

NoRaise == [id |-> 0, at |-> None, wm |-> 0, n |-> 0]

(* No call of process_batch_readings was made. *)
NoBatch == [pc |-> "idle", input |-> << >>, left |-> << >>, alerts |-> << >>,
            leaks |-> << >>, stored |-> << >>]

-----------------------------------------------------------------------------
Meters == {"MTR-001", "MTR-002"}

Init ==
    /\ program \in {"leak_detector", "app"}
    /\ meter_state = << >>
    /\ db_meter_state = {}
    /\ leak_alerts = << >>
    /\ call = [fn |-> "none", meter_id |-> None, timestamp |-> 0, volume |-> 0,
               leak |-> None]
    /\ before = NoRow
    /\ alerts_before = 0
    /\ fed = {}
    /\ processed = 0
    /\ alone = [m \in Meters |-> NoRow]
    /\ streak = [m \in Meters |-> NoStreak]
    /\ night_run = [m \in Meters |-> NoRun]
    /\ meter_readings = {}
    /\ sqlite_sequence = 0
    /\ last_processed_id = 0
    /\ pc = "fetch"
    /\ readings = << >>
    /\ run = 0
    /\ applied = << >>
    /\ assigned = {}
    /\ raised = NoRaise
    /\ event = Step("none")
    /\ failures = 0
    /\ sweeps = 0
    /\ batch = NoBatch

(* The hourly feed: one meter, a first reading at 02:00 or at 12:00, then  *)
(* a reading every hour whose volume moved by one of a few deltas: none,   *)
(* exactly MIN_FLOW, just above MIN_FLOW, half of NIGHT_THRESHOLD.         *)
HourlyMeters == {"MTR-001"}
StartHours == {NIGHT_START, 12}
StartVolumes == {0}
Deltas == {0, MIN_FLOW, MIN_FLOW + 1, NIGHT_THRESHOLD \div 2}

Next ==
    /\ \E m \in HourlyMeters :
          IF Known(m)
          THEN \E dv \in Deltas :
                  Engine(m, MeterState(m).last_time + 1,
                         MeterState(m).last_volume + dv)
          ELSE \E t \in StartHours, v \in StartVolumes : Engine(m, t, v)
    /\ UNCHANGED monitorVars
    /\ UNCHANGED batch

Spec == Init /\ [][Next]_vars

(* The fleet feed: two meters, readings in any order of time and volume    *)
(* (out of order, repeated, falling volumes), drawn from the hours around  *)
(* the two ends of the night window and one a day later, and from volumes  *)
(* a MIN_FLOW or a NIGHT_THRESHOLD apart; a run applies MaxReadings.       *)
FleetHours == {NIGHT_START - 1, NIGHT_START, NIGHT_END, NIGHT_END + 1,
               NIGHT_START + CONTINUOUS_HOURS}
FleetVolumes == {0, MIN_FLOW + 1, 2 * MIN_FLOW + 1,
                 NIGHT_THRESHOLD + 2 * MIN_FLOW + 1}

NextFleet ==
    /\ \E m \in Meters, t \in FleetHours, v \in FleetVolumes :
          /\ processed < MaxReadings
          /\ Engine(m, t, v)
    /\ UNCHANGED monitorVars
    /\ UNCHANGED batch

SpecFleet == Init /\ [][NextFleet]_vars

-----------------------------------------------------------------------------
(* app.py: the producers and the monitor thread.                           *)

(* db.py insert_reading, called by the simulator and by sync_from_csv. *)
insert_reading(meter_id, timestamp, volume) ==
    /\ IF Duplicate(meter_readings, meter_id, timestamp)
       THEN /\ event' = Snapshot("insert_reading", FALSE, "IntegrityError",
                                 [id |-> 0, meter_id |-> meter_id,
                                  timestamp |-> timestamp,
                                  volume_liters |-> volume],
                                 isoformat(0), 0)
            /\ UNCHANGED <<meter_readings, sqlite_sequence, assigned>>
       ELSE LET id == NextId(meter_readings, sqlite_sequence)
                row == [id |-> id, meter_id |-> meter_id,
                        timestamp |-> timestamp, volume_liters |-> volume]
            IN  /\ id <= MaxId
                /\ meter_readings' = meter_readings \cup {row}
                /\ sqlite_sequence' = id
                /\ assigned' = assigned \cup {id}
                /\ event' = Snapshot("insert_reading", TRUE, None, row,
                                     isoformat(0), 0)
    /\ UNCHANGED <<last_processed_id, pc, readings, run, applied, raised,
                   failures, sweeps>>
    /\ UNCHANGED engineVars
    /\ UNCHANGED batch

(* A store operation or a parse raises inside the try block: the except    *)
(* branch logs and sleeps, the list readings is dropped.                   *)
Raise(at, row) ==
    /\ pc' = "backoff"
    /\ readings' = << >>
    /\ event' = Snapshot("raise", FALSE, at, row, isoformat(0), 0)
    /\ raised' = IF row = NoReading THEN raised
                 ELSE [id |-> row.id, at |-> at, wm |-> last_processed_id,
                       n |-> Len(applied)]
    /\ failures' = IF at = "fromisoformat" THEN failures ELSE failures + 1
    /\ UNCHANGED <<meter_readings, sqlite_sequence, last_processed_id, run,
                   applied, assigned, sweeps>>

(* app.py:37 readings = get_unprocessed_readings(last_processed_id) *)
Fetch ==
    /\ pc = "fetch"
    /\ \/ /\ readings' = get_unprocessed_readings(meter_readings,
                                                   last_processed_id)
          /\ pc' = "apply"
          /\ event' = Step("fetch")
          /\ UNCHANGED <<meter_readings, sqlite_sequence, last_processed_id,
                         run, applied, assigned, raised, failures, sweeps>>
       \/ /\ failures < MaxFailures
          /\ Raise("get_unprocessed_readings", NoReading)
    /\ UNCHANGED engineVars
    /\ UNCHANGED batch

(* process_reading_scalable raising part-way: at the parse of the          *)
(* timestamp, at get_meter_state, at update_meter_state (nothing is        *)
(* written), or at insert_alert, after update_meter_state has committed.   *)
ProcessReadingScalableRaises(meter_id, ts, volume, at) ==
    /\ program = "app"
    /\ IF at = "fromisoformat" THEN ~Parses(ts) ELSE Parses(ts)
    /\ IF at = "insert_alert"
       THEN LET timestamp == fromisoformat(ts)
                state == get_meter_state(db_meter_state, meter_id)
                last_time == fromisoformat(state.last_time)
                delta == volume - state.last_volume
                hours == timestamp - last_time
                ch == ContinuousHoursNext(state.continuous_hours, delta, hours)
                nf == NightFlowNextScalable(state.night_flow, delta, timestamp)
            IN  /\ state # NoRow
                /\ LeakDecision(ch, nf) # None
                /\ db_meter_state' =
                       update_meter_state(db_meter_state, meter_id, volume,
                                          isoformat(timestamp), ch, nf)
       ELSE db_meter_state' = db_meter_state
    /\ UNCHANGED <<program, meter_state, leak_alerts, call, before,
                   alerts_before, fed, processed, alone, streak, night_run>>

RaiseSites == {"fromisoformat", "get_meter_state", "update_meter_state",
               "insert_alert"}

(* app.py:42-54 one turn of the for loop over readings *)
Apply ==
    /\ pc = "apply"
    /\ readings # << >>
    /\ UNCHANGED batch
    /\ LET reading == Head(readings)
       IN  \/ /\ Parses(reading.timestamp)
              /\ Engine(reading.meter_id, fromisoformat(reading.timestamp),
                        reading.volume_liters)
              /\ last_processed_id' = reading.id
              /\ readings' = Tail(readings)
              /\ applied' = Append(applied, [row |-> reading, run |-> run])
              /\ raised' = IF raised.id = reading.id THEN NoRaise ELSE raised
              /\ event' = Snapshot("apply", TRUE, None, reading,
                                   isoformat(0), 0)
              /\ UNCHANGED <<meter_readings, sqlite_sequence, pc, run,
                             assigned, failures, sweeps>>
           \/ \E at \in RaiseSites :
                 /\ at # "fromisoformat" => failures < MaxFailures
                 /\ ProcessReadingScalableRaises(reading.meter_id,
                                                 reading.timestamp,
                                                 reading.volume_liters, at)
                 /\ Raise(at, reading)

(* app.py:39 and 56: the list is empty or used up, time.sleep(2) *)
EndPass ==
    /\ pc = "apply"
    /\ readings = << >>
    /\ pc' = "sleep"
    /\ event' = Step("sleep")
    /\ UNCHANGED <<meter_readings, sqlite_sequence, last_processed_id,
                   readings, run, applied, assigned, raised, failures, sweeps>>
    /\ UNCHANGED engineVars
    /\ UNCHANGED batch

(* app.py:59-61: when the clock reads a whole number of weeks, the sweep   *)
(* with cutoff utcnow() - 7 days; the clock is not the readings' clock.    *)
SweepCutoffs == {isoformat(NIGHT_START + 1)}

Sleep ==
    /\ pc = "sleep"
    /\ \/ /\ pc' = "fetch"
          /\ event' = Step("fetch")
          /\ UNCHANGED <<meter_readings, sqlite_sequence, last_processed_id,
                         readings, run, applied, assigned, raised, failures,
                         sweeps>>
       \/ \E cutoff_time \in SweepCutoffs :
             /\ sweeps < MaxSweeps
             /\ meter_readings' =
                    cleanup_old_readings(meter_readings, cutoff_time)
             /\ pc' = "fetch"
             /\ sweeps' = sweeps + 1
             /\ event' = Snapshot("sweep", TRUE, None, NoReading, cutoff_time,
                                  Cardinality(meter_readings)
                                      - Cardinality(meter_readings'))
             /\ UNCHANGED <<sqlite_sequence, last_processed_id, readings, run,
                            applied, assigned, raised, failures>>
       \/ /\ failures < MaxFailures
          /\ Raise("cleanup_old_readings", NoReading)
    /\ UNCHANGED engineVars
    /\ UNCHANGED batch

(* app.py:63-65: time.sleep(5), then the while loop again *)
Backoff ==
    /\ pc = "backoff"
    /\ pc' = "fetch"
    /\ event' = Step("backoff")
    /\ UNCHANGED <<meter_readings, sqlite_sequence, last_processed_id,
                   readings, run, applied, assigned, raised, failures, sweeps>>
    /\ UNCHANGED engineVars
    /\ UNCHANGED batch

(* The process is stopped and started again: app.py:27 sets the watermark  *)
(* to 0 and __main__ starts a new monitor thread; the database file stays. *)
Restart ==
    /\ run < MaxRestarts
    /\ run' = run + 1
    /\ last_processed_id' = 0
    /\ pc' = "fetch"
    /\ readings' = << >>
    /\ raised' = NoRaise
    /\ event' = Step("restart")
    /\ UNCHANGED <<meter_readings, sqlite_sequence, applied, assigned,
                   failures, sweeps>>
    /\ UNCHANGED engineVars
    /\ UNCHANGED batch

(* What the producers write: either meter, 02:00, 03:00 or a text that     *)
(* does not parse (hour 24), a volume of none or above NIGHT_THRESHOLD.    *)
MonitorStamps == {isoformat(NIGHT_START), isoformat(NIGHT_START + 1),
                  [day |-> 0, hour |-> 24]}
MonitorVolumes == {0, NIGHT_THRESHOLD + 2 * MIN_FLOW + 1}

InitMonitor == Init /\ program = "app"

NextMonitor ==
    \/ \E m \in Meters, ts \in MonitorStamps, v \in MonitorVolumes :
          insert_reading(m, ts, v)
    \/ Fetch
    \/ Apply
    \/ EndPass
    \/ Sleep
    \/ Backoff
    \/ Restart

SpecMonitor == InitMonitor /\ [][NextMonitor]_vars

(* The monitor thread kept running: the process is not stopped, the        *)
(* thread takes its next step whenever it has one, and a store operation   *)
(* raises MaxFailures times at most, so every store failure passes.        *)
MonitorStep == Fetch \/ Apply \/ EndPass \/ Sleep \/ Backoff

NextLive ==
    \/ \E m \in Meters, ts \in MonitorStamps, v \in MonitorVolumes :
          insert_reading(m, ts, v)
    \/ Fetch
    \/ Apply
    \/ EndPass
    \/ Sleep
    \/ Backoff

SpecLive == InitMonitor /\ [][NextLive]_vars /\ WF_vars(MonitorStep)

-----------------------------------------------------------------------------
(* leak_detector_scalable.py process_batch_readings, called with a list of *)
(* readings held in memory while the monitor thread runs.  batch.leaks and *)
(* batch.stored record, beside the program, what each engine call of the   *)
(* loop returned and the alert rows it added.                              *)

(* leak_detector_scalable.py:96-102 *)
AppendAlert_Always(alerts, reading, leak) ==
    Append(alerts, [meter_id |-> reading.meter_id, type |-> leak,
                    timestamp |-> reading.timestamp,
                    volume |-> reading.volume_liters])

AppendAlert(alerts, reading, leak) ==
    IF leak # None
    THEN Append(alerts, [meter_id |-> reading.meter_id, type |-> leak,
                         timestamp |-> reading.timestamp,
                         volume |-> reading.volume_liters])
    ELSE alerts

BatchMeters == {"MTR-001"}

BatchLists ==
    LET Reading == [meter_id : BatchMeters, timestamp : MonitorStamps,
                    volume_liters : MonitorVolumes]
    IN  UNION {[1..n -> Reading] : n \in 0..MaxBatch}

BatchCall ==
    /\ batch.pc = "idle"
    /\ \E rs \in BatchLists :
          batch' = [pc |-> "loop", input |-> rs, left |-> rs,
                    alerts |-> << >>, leaks |-> << >>, stored |-> << >>]
    /\ event' = Step("process_batch_readings")
    /\ UNCHANGED <<meter_readings, sqlite_sequence, last_processed_id, pc,
                   readings, run, applied, assigned, raised, failures, sweeps>>
    /\ UNCHANGED engineVars

(* leak_detector_scalable.py:90-102 one turn of the for loop; a timestamp  *)
(* that does not parse raises out of the function.                         *)
BatchStep ==
    /\ batch.pc = "loop"
    /\ batch.left # << >>
    /\ LET reading == Head(batch.left)
       IN  IF Parses(reading.timestamp)
           THEN /\ Engine(reading.meter_id, fromisoformat(reading.timestamp),
                          reading.volume_liters)
                /\ batch' = [batch EXCEPT
                       !.left = Tail(batch.left),
                       !.alerts = AppendAlert(batch.alerts, reading, call'.leak),
                       !.leaks = Append(batch.leaks, call'.leak),
                       !.stored = batch.stored \o
                                  SubSeq(leak_alerts', Len(leak_alerts) + 1,
                                         Len(leak_alerts'))]
           ELSE /\ ProcessReadingScalableRaises(reading.meter_id,
                                                reading.timestamp,
                                                reading.volume_liters,
                                                "fromisoformat")
                /\ batch' = [batch EXCEPT !.pc = "raised"]
    /\ event' = Step("process_batch_readings")
    /\ UNCHANGED <<meter_readings, sqlite_sequence, last_processed_id, pc,
                   readings, run, applied, assigned, raised, failures, sweeps>>

(* leak_detector_scalable.py:103 return alerts *)
BatchReturn ==
    /\ batch.pc = "loop"
    /\ batch.left = << >>
    /\ batch' = [batch EXCEPT !.pc = "returned"]
    /\ event' = Step("process_batch_readings")
    /\ UNCHANGED <<meter_readings, sqlite_sequence, last_processed_id, pc,
                   readings, run, applied, assigned, raised, failures, sweeps>>
    /\ UNCHANGED engineVars

(* The monitor beside the call: its producer writes one reading, at 02:00  *)
(* with volume 0, of the meter the batch is about.                         *)
BatchFeed == {isoformat(NIGHT_START)}

NextBatch ==
    \/ \E m \in BatchMeters, ts \in BatchFeed : insert_reading(m, ts, 0)
    \/ Fetch
    \/ Apply
    \/ EndPass
    \/ Sleep
    \/ Backoff
    \/ BatchCall
    \/ BatchStep
    \/ BatchReturn

SpecBatch == InitMonitor /\ [][NextBatch]_vars

-----------------------------------------------------------------------------
(* What the claims speak of: the last call's meter, its state after the    *)
(* call, and the delta and the hour of the reading.                        *)
Called == call.fn # "none"
After == MeterState(call.meter_id)
NotFirst == Called /\ before # NoRow
Delta == call.volume - before.last_volume
Elapsed == call.timestamp - before.last_time
ByNight == is_night(HourOf(call.timestamp))
IsFirst == Called /\ streak[call.meter_id] = [live |-> TRUE, n |-> 0]
AlertRow == [meter_id |-> call.meter_id, alert_type |-> call.leak,
             volume_liters |-> call.volume,
             timestamp |-> isoformat(call.timestamp)]
StoredOneAlert ==
    /\ Len(leak_alerts) = alerts_before + 1
    /\ leak_alerts[Len(leak_alerts)] = AlertRow

(* C1: the first reading ever applied to a meter returns no alert and      *)
(* leaves last_volume and last_timestamp of the reading with both          *)
(* accumulators at 0, whatever its volume and hour, in both engines.       *)
C1_FirstReading ==
    IsFirst =>
        /\ call.leak = None
        /\ After = [last_volume |-> call.volume,
                    last_time |-> call.timestamp,
                    continuous_hours |-> 0, night_flow |-> 0]
        /\ Len(leak_alerts) = alerts_before

C1_Witness ==
    /\ IsFirst
    /\ program = "leak_detector"
    /\ ByNight
    /\ call.volume >= NIGHT_THRESHOLD
    /\ call.timestamp >= CONTINUOUS_HOURS

(* C2: from a meter's first reading on, after the k-th reading in a row    *)
(* that came one hour after the last with delta > MIN_FLOW,                *)
(* continuous_hours is k; with the night flow below its threshold there is *)
(* no alert for k in 1..23, and the 24th returns CONTINUOUS_FLOW_LEAK.     *)
C2_HourlyStreak ==
    \A m \in Meters :
        streak[m].live =>
            /\ MeterState(m).continuous_hours = streak[m].n
            /\ (call.meter_id = m /\ streak[m].n >= 1) =>
                  /\ (streak[m].n < CONTINUOUS_HOURS
                         /\ MeterState(m).night_flow < NIGHT_THRESHOLD)
                        => call.leak = None
                  /\ streak[m].n >= CONTINUOUS_HOURS
                        => call.leak = "CONTINUOUS_FLOW_LEAK"

C2_Witness ==
    /\ Called
    /\ streak[call.meter_id] = [live |-> TRUE, n |-> CONTINUOUS_HOURS]
    /\ call.leak = "CONTINUOUS_FLOW_LEAK"
    /\ program = "app"
    /\ Len(leak_alerts) = 1

(* C3: a reading whose delta is <= MIN_FLOW (equal, zero or negative)      *)
(* applied to an existing state sets continuous_hours to 0 and returns no  *)
(* CONTINUOUS_FLOW_LEAK, whatever continuous_hours and the elapsed time.   *)
C3_LowFlowResets ==
    (NotFirst /\ Delta <= MIN_FLOW) =>
        /\ After.continuous_hours = 0
        /\ call.leak # "CONTINUOUS_FLOW_LEAK"

C3_Witness ==
    /\ NotFirst
    /\ Delta = MIN_FLOW
    /\ before.continuous_hours >= CONTINUOUS_HOURS
    /\ Elapsed < 0
    /\ After.continuous_hours = 0

(* C4: the night window is the hours 2..5, both ends included; over a run  *)
(* of night readings that began with night_flow = 0, night_flow is the sum *)
(* of the run's deltas, and NIGHT_FLOW_LEAK is returned on exactly the     *)
(* readings of the run where the sum is >= NIGHT_THRESHOLD while           *)
(* continuous_hours is below CONTINUOUS_HOURS.                             *)
C4_NightRun ==
    /\ \A h \in 0..23 : is_night(h) <=> h \in {2, 3, 4, 5}
    /\ \A m \in Meters :
          (night_run[m].open /\ m \in fed) =>
              /\ MeterState(m).night_flow = night_run[m].sum
              /\ (NotFirst /\ call.meter_id = m /\ HourOf(call.timestamp) \in 2..5) =>
                    (call.leak = "NIGHT_FLOW_LEAK" <=>
                        /\ night_run[m].sum >= NIGHT_THRESHOLD
                        /\ MeterState(m).continuous_hours < CONTINUOUS_HOURS)

C4_Witness ==
    /\ NotFirst
    /\ night_run[call.meter_id].open
    /\ HourOf(call.timestamp) = 4
    /\ before.night_flow > 0
    /\ before.night_flow < NIGHT_THRESHOLD
    /\ night_run[call.meter_id].sum >= NIGHT_THRESHOLD
    /\ call.leak = "NIGHT_FLOW_LEAK"

(* C5: after any reading but a meter's first whose hour is outside the     *)
(* night window, the meter's night_flow is 0, in both engines.             *)
C5_DayResetsNightFlow ==
    (NotFirst /\ ~ByNight) => After.night_flow = 0

(* C6: a reading whose hour is outside the night window never returns      *)
(* NIGHT_FLOW_LEAK, in both engines.                                       *)
C6_NoNightLeakByDay ==
    (Called /\ ~ByNight) => call.leak # "NIGHT_FLOW_LEAK"

(* C7: when after a reading continuous_hours >= CONTINUOUS_HOURS and       *)
(* night_flow >= NIGHT_THRESHOLD both hold, the reading returns            *)
(* CONTINUOUS_FLOW_LEAK and the scalable engine stores that one alert;     *)
(* NIGHT_FLOW_LEAK is returned only with continuous_hours below its        *)
(* threshold.                                                              *)
C7_ContinuousFirst ==
    /\ (NotFirst /\ After.continuous_hours >= CONTINUOUS_HOURS
                 /\ After.night_flow >= NIGHT_THRESHOLD) =>
          /\ call.leak = "CONTINUOUS_FLOW_LEAK"
          /\ program = "app" => StoredOneAlert
    /\ (Called /\ call.leak = "NIGHT_FLOW_LEAK") =>
          After.continuous_hours < CONTINUOUS_HOURS

C7_Witness ==
    /\ NotFirst
    /\ program = "app"
    /\ After.continuous_hours >= CONTINUOUS_HOURS
    /\ After.night_flow >= NIGHT_THRESHOLD
    /\ call.leak = "CONTINUOUS_FLOW_LEAK"

(* C8: an alert resets no accumulator: the state written with an alert     *)
(* still meets the threshold that raised it, every reading but a first     *)
(* after which a threshold is met returns an alert, also right after an    *)
(* alert, and the scalable engine stores one alert row for each.           *)
C8_LevelTriggered ==
    /\ (Called /\ call.leak = "CONTINUOUS_FLOW_LEAK") =>
          After.continuous_hours >= CONTINUOUS_HOURS
    /\ (Called /\ call.leak = "NIGHT_FLOW_LEAK") =>
          After.night_flow >= NIGHT_THRESHOLD
    /\ (NotFirst /\ (After.continuous_hours >= CONTINUOUS_HOURS
                        \/ After.night_flow >= NIGHT_THRESHOLD)) =>
          /\ call.leak # None
          /\ program = "app" => StoredOneAlert
    /\ (Called /\ call.leak = None) => Len(leak_alerts) = alerts_before

C8_Witness ==
    /\ NotFirst
    /\ program = "app"
    /\ before.continuous_hours >= CONTINUOUS_HOURS
    /\ After.continuous_hours > before.continuous_hours
    /\ call.leak = "CONTINUOUS_FLOW_LEAK"
    /\ Len(leak_alerts) = 2
    /\ leak_alerts[1].alert_type = "CONTINUOUS_FLOW_LEAK"

(* C9: a reading of one meter leaves every other meter's state as it was:  *)
(* under any interleaving each meter's state, and the alert of each of its *)
(* readings, is what an engine fed that meter's readings alone gives.      *)
C9_Independent ==
    /\ \A m \in Meters : MeterState(m) = alone[m]
    /\ NotFirst =>
          call.leak = LeakDecision(alone[call.meter_id].continuous_hours,
                                   alone[call.meter_id].night_flow)

C9_Witness ==
    /\ fed = Meters
    /\ processed = MaxReadings
    /\ \E a \in Meters, b \in Meters :
          /\ a # b
          /\ call.meter_id = a
          /\ NotFirst
          /\ After.continuous_hours > 0
          /\ After.night_flow > 0
          /\ MeterState(b).continuous_hours = 0
          /\ MeterState(b).night_flow = 0
          /\ MeterState(b).last_volume # After.last_volume

(* C10: after any reading but a meter's first, the meter's stored          *)
(* last_volume and last_timestamp are the reading's, alert or not; a meter *)
(* has exactly one state once a reading of it was applied, and none before.*)
StatesOf(m) ==
    IF program = "app"
    THEN Cardinality({r \in db_meter_state : r.meter_id = m})
    ELSE IF m \in DOMAIN meter_state THEN 1 ELSE 0

C10_StatePersisted ==
    /\ NotFirst =>
          /\ After # NoRow
          /\ After.last_volume = call.volume
          /\ After.last_time = call.timestamp
    /\ \A m \in Meters : StatesOf(m) = (IF m \in fed THEN 1 ELSE 0)

C10_Witness ==
    /\ NotFirst
    /\ program = "app"
    /\ call.leak = "NIGHT_FLOW_LEAK"
    /\ Elapsed < 0
    /\ After.continuous_hours < 0

-----------------------------------------------------------------------------
(* The monitor's claims speak of the readings applied in the present run   *)
(* of the process, and of the rows a step found with a reading's key.      *)
InRun == SelectSeq(applied, LAMBDA a : a.run = run)

SameKey(table, row) ==
    {r \in table : r.meter_id = row.meter_id /\ r.timestamp = row.timestamp}

(* C11: insert_reading with a (meter_id, timestamp) already stored returns *)
(* False, adds no row, gives out no id and leaves the stored volume; with  *)
(* a new key it returns True and adds exactly one row, whose id is above   *)
(* every id given before.                                                  *)
C11_InsertIdempotent ==
    event.op = "insert_reading" =>
        IF SameKey(event.store, event.row) # {}
        THEN /\ ~event.ok
             /\ meter_readings = event.store
             /\ assigned = event.ids
             /\ SameKey(meter_readings, event.row)
                    = SameKey(event.store, event.row)
        ELSE /\ event.ok
             /\ meter_readings = event.store \cup {event.row}
             /\ Cardinality(meter_readings) = Cardinality(event.store) + 1
             /\ \A i \in event.ids : event.row.id > i
             /\ assigned = event.ids \cup {event.row.id}

C11_Witness ==
    /\ event.op = "insert_reading"
    /\ ~event.ok
    /\ \E r \in meter_readings :
          /\ r.meter_id = event.row.meter_id
          /\ r.timestamp = event.row.timestamp
          /\ r.volume_liters # event.row.volume_liters
    /\ \E r \in meter_readings : r.meter_id # event.row.meter_id

(* C12: within one run of the monitor the watermark never decreases and    *)
(* never passes an unapplied reading: the readings applied in the run have *)
(* ascending ids, last_processed_id is the id of the last of them (0 when  *)
(* none), and every stored reading with id <= last_processed_id is one of  *)
(* them.                                                                   *)
C12_Watermark ==
    /\ \A i, j \in 1..Len(InRun) :
          i < j => InRun[i].row.id < InRun[j].row.id
    /\ last_processed_id =
          (IF InRun = << >> THEN 0 ELSE InRun[Len(InRun)].row.id)
    /\ \A r \in meter_readings :
          r.id <= last_processed_id =>
              \E i \in 1..Len(InRun) : InRun[i].row = r

C12_Witness ==
    /\ last_processed_id = MaxId
    /\ Len(InRun) = MaxId
    /\ failures > 0
    /\ sweeps > 0
    /\ meter_readings # {}
    /\ event.op = "insert_reading"

(* C13: no reading is applied twice, also across a restart of the          *)
(* process, and no alert is stored twice for one reading (while no sweep   *)
(* has freed a key, a reading is known by its meter and timestamp, and so  *)
(* is its alert).                                                          *)
C13_AtMostOnce ==
    /\ \A i, j \in 1..Len(applied) :
          i # j => applied[i].row.id # applied[j].row.id
    /\ sweeps = 0 =>
          \A i, j \in 1..Len(leak_alerts) :
              i # j => leak_alerts[i] # leak_alerts[j]

(* C14: when a store operation raises while reading r is applied, the pass *)
(* stops: until r is applied the watermark stays where it was, at the id   *)
(* of the last reading applied in the run and below r's, no reading is     *)
(* applied, and a pass that begins finds r first in its list.              *)
StoreRaised == raised.id # 0 /\ raised.at # "fromisoformat"

C14_FailedPassStops ==
    StoreRaised =>
        /\ last_processed_id = raised.wm
        /\ last_processed_id < raised.id
        /\ last_processed_id =
              (IF InRun = << >> THEN 0 ELSE InRun[Len(InRun)].row.id)
        /\ Len(applied) = raised.n
        /\ pc \in {"backoff", "fetch", "apply"}
        /\ pc # "apply" => readings = << >>
        /\ pc = "apply" => (readings # << >> /\ readings[1].id = raised.id)

C14_Witness ==
    /\ StoreRaised
    /\ raised.at = "insert_alert"
    /\ raised.wm > 0
    /\ pc = "apply"
    /\ readings[1].id = raised.id
    /\ failures = MaxFailures

(* C15: a reading whose timestamp does not parse is rejected alone: the    *)
(* pass goes on with the readings after it and the watermark moves past    *)
(* its id.                                                                 *)
C15_MalformedSkipped ==
    (raised.id # 0 /\ raised.at = "fromisoformat") =>
        (pc = "apply" /\ last_processed_id >= raised.id)

(* C16: a retention sweep only removes rows of meter_readings: the         *)
(* meter_state rows, the stored alerts and the watermark are as before,    *)
(* every reading whose timestamp is not below the cutoff is kept, no row   *)
(* is added, and the count returned is the number of rows removed.         *)
Swept == event.store \ meter_readings

C16_SweepFrame ==
    event.op = "sweep" =>
        /\ db_meter_state = event.states
        /\ leak_alerts = event.alerts
        /\ last_processed_id = event.wm
        /\ meter_readings \subseteq event.store
        /\ \A r \in event.store :
              ~TextLess(r.timestamp, event.cutoff) => r \in meter_readings
        /\ event.count = Cardinality(Swept)

C16_Witness ==
    /\ event.op = "sweep"
    /\ event.count > 0
    /\ \E r \in meter_readings : r.timestamp = event.cutoff
    /\ db_meter_state # {}
    /\ leak_alerts # << >>
    /\ last_processed_id > 0

(* C17: a sweep removes only readings the monitor has applied (id <=       *)
(* last_processed_id), whatever timestamps producers insert, and runs only *)
(* between passes.                                                         *)
C17_SweepOnlyDelivered ==
    event.op = "sweep" =>
        /\ \A r \in Swept : r.id <= last_processed_id
        /\ readings = << >>

(* C18: in a run, the readings of one meter are applied in non-decreasing  *)
(* timestamp order, in whatever order producers inserted them.             *)
C18_TimestampOrder ==
    \A i, j \in 1..Len(InRun) :
        (i < j /\ InRun[i].row.meter_id = InRun[j].row.meter_id) =>
            fromisoformat(InRun[i].row.timestamp)
                <= fromisoformat(InRun[j].row.timestamp)

(* C19: applying a reading is atomic under store failures: when            *)
(* process_reading_scalable raises part-way, the meter_state rows and the  *)
(* stored alerts are as they were before that reading.                     *)
C19_AtomicApply ==
    (event.op = "raise" /\ event.row # NoReading) =>
        /\ db_meter_state = event.states
        /\ leak_alerts = event.alerts

(* C20: applying a reading a second time to the state it produced leaves   *)
(* that state as it is: last_volume, last_timestamp, continuous_hours and  *)
(* night_flow.                                                             *)
C20_ReapplyIdempotent ==
    (Called /\ program = "app") =>
        Alone(After, call.timestamp, call.volume) = After

(* C21: in every state a meter has, continuous_hours >= 0 and              *)
(* night_flow >= 0, also after readings with an earlier timestamp or a     *)
(* lower volume than the meter's last.                                     *)
C21_NonNegative ==
    \A m \in Meters :
        Known(m) =>
            /\ MeterState(m).continuous_hours >= 0
            /\ MeterState(m).night_flow >= 0

(* C22: a stale reading is rejected: a reading whose timestamp is not      *)
(* after the meter's last_timestamp adds no hours and leaves last_volume   *)
(* and last_timestamp as they were, so last_timestamp never goes back.     *)
C22_StaleRejected ==
    (NotFirst /\ call.timestamp <= before.last_time) =>
        /\ After.last_time = before.last_time
        /\ After.last_volume = before.last_volume
        /\ After.continuous_hours \in {0, before.continuous_hours}

(* C23: process_batch_readings applies its readings in input order through *)
(* the engine and never moves the watermark, which stays the id of the     *)
(* last reading the monitor applied; its list alerts holds one entry for   *)
(* each reading so far for which the engine returned a leak, in input      *)
(* order, with that reading's meter_id, timestamp and volume and the leak  *)
(* type, and matches entry by entry the alert rows the call added; it      *)
(* returns when no reading is left.                                        *)
RECURSIVE Leaking(_, _)
Leaking(leaks, i) ==
    IF i > Len(leaks) THEN << >>
    ELSE (IF leaks[i] # None THEN <<i>> ELSE << >>) \o Leaking(leaks, i + 1)

C23_BatchAlerts ==
    batch.pc \in {"loop", "returned"} =>
        LET done == Len(batch.leaks)
            hit == Leaking(batch.leaks, 1)
        IN  /\ done + Len(batch.left) = Len(batch.input)
            /\ batch.left = SubSeq(batch.input, done + 1, Len(batch.input))
            /\ batch.pc = "returned" => done = Len(batch.input)
            /\ last_processed_id =
                  (IF InRun = << >> THEN 0 ELSE InRun[Len(InRun)].row.id)
            /\ Len(batch.alerts) = Len(hit)
            /\ Len(batch.stored) = Len(hit)
            /\ \A k \in 1..Len(hit) :
                  LET reading == batch.input[hit[k]]
                      entry == batch.alerts[k]
                      row == batch.stored[k]
                  IN  /\ entry = [meter_id |-> reading.meter_id,
                                  type |-> batch.leaks[hit[k]],
                                  timestamp |-> reading.timestamp,
                                  volume |-> reading.volume_liters]
                      /\ row = [meter_id |-> entry.meter_id,
                                alert_type |-> entry.type,
                                volume_liters |-> entry.volume,
                                timestamp |-> entry.timestamp]

C23_Witness ==
    /\ batch.pc = "returned"
    /\ Len(batch.input) = MaxBatch
    /\ Len(batch.alerts) = 1
    /\ batch.leaks[1] # None
    /\ batch.leaks[MaxBatch] = None
    /\ last_processed_id > 0

(* C24: with the monitor thread running fairly and every store failure     *)
(* passing, every reading inserted is applied in the end: the watermark    *)
(* reaches the id of every reading that was given one.                     *)
C24_Progress ==
    \A i \in 1..MaxId : (i \in assigned) ~> (last_processed_id >= i)
====
